---- MODULE Spec2Model ----
(***************************************************************************)
(* Batch video transcription: batch_process.py (file discovery, the batch  *)
(* driver, the per-video handler, SRT generation) and                      *)
(* src/video_english_recognition.py (VideoEnglishRecognizer).              *)
(*                                                                         *)
(* File names are sequences of one-character strings, so that Path.stem,   *)
(* str.replace, str.strip, str.upper and the lexicographic sort are        *)
(* computed as Python computes them.  The output folder is a set of        *)
(* [name, src] records: a file name and the video whose processing wrote   *)
(* it last.  The external collaborators (ffmpeg probe, moviepy, whisper,   *)
(* the file system) either succeed or fail; a failure is drawn per stage   *)
(* and kept in faults.  last records what the latest call of               *)
(* process_single_video did.                                               *)
(*                                                                         *)
(* Spec is the batch driver, run again and again over the same folders.    *)
(* SrtSpec applies the two generate_srt_file functions to every            *)
(* transcription record of up to MaxSegs segments.                         *)
(***************************************************************************)
EXTENDS Integers, Sequences, FiniteSets, TLC

VARIABLES inputDir, outDir, pc, video_files, idx, results, loads, summary,
          last, faults, clean, prevClean, srt_segments, srt_call

batch_vars == <<inputDir, outDir, pc, video_files, idx, results, loads, summary,
                last, faults, clean, prevClean>>

srt_vars == <<srt_segments, srt_call>>

vars == <<batch_vars, srt_vars>>

-----------------------------------------------------------------------------
(* Bounds *)

\* A directory holds at most this many video files.
MaxVideos == 2
\* A transcription record holds at most this many segments.
MaxSegs == 4

-----------------------------------------------------------------------------
(* Characters and strings *)

\* The characters in ascending code point order (Python compares str by code point).
Ascii ==
    <<" ", ".", "0", "1", "2", "3", "4", "5", "6", "7", "8", "9",
      "A", "B", "C", "D", "E", "F", "G", "H", "I", "J", "K", "L", "M",
      "N", "O", "P", "Q", "R", "S", "T", "U", "V", "W", "X", "Y", "Z",
      "_",
      "a", "b", "c", "d", "e", "f", "g", "h", "i", "j", "k", "l", "m",
      "n", "o", "p", "q", "r", "s", "t", "u", "v", "w", "x", "y", "z">>

Ord(c) == CHOOSE i \in 1..Len(Ascii) : Ascii[i] = c

\* str.upper on one character
UpperChar(c) == IF Ord(c) >= Ord("a") THEN Ascii[Ord(c) - Ord("a") + Ord("A")] ELSE c

\* str.upper
Upper(s) == [i \in 1..Len(s) |-> UpperChar(s[i])]

\* s < t for Python str
RECURSIVE StrLess(_, _)
StrLess(s, t) ==
    IF t = <<>> THEN FALSE
    ELSE IF s = <<>> THEN TRUE
    ELSE IF s[1] # t[1] THEN Ord(s[1]) < Ord(t[1])
    ELSE StrLess(Tail(s), Tail(t))

StartsWith(s, p) == Len(p) <= Len(s) /\ SubSeq(s, 1, Len(p)) = p

EndsWith(s, p) == Len(p) <= Len(s) /\ SubSeq(s, Len(s) - Len(p) + 1, Len(s)) = p

\* s.replace(old, new): every non-overlapping occurrence, left to right
RECURSIVE Replace(_, _, _)
Replace(s, old, new) ==
    IF s = <<>> THEN <<>>
    ELSE IF StartsWith(s, old)
         THEN new \o Replace(SubSeq(s, Len(old) + 1, Len(s)), old, new)
         ELSE <<s[1]>> \o Replace(Tail(s), old, new)

\* s.strip(): leading and trailing whitespace removed
RECURSIVE Strip(_)
Strip(s) ==
    IF s = <<>> THEN <<>>
    ELSE IF s[1] = " " THEN Strip(Tail(s))
    ELSE IF s[Len(s)] = " " THEN Strip(SubSeq(s, 1, Len(s) - 1))
    ELSE s

\* Path(p).stem: the final component without its last suffix
Stem(name) ==
    LET dots == {i \in 2..(Len(name) - 1) : name[i] = "."}
    IN  IF dots = {} THEN name
        ELSE SubSeq(name, 1, (CHOOSE i \in dots : \A j \in dots : j <= i) - 1)

-----------------------------------------------------------------------------
(* The files an input directory may hold *)

ASPB_MP4 == <<"a", " ", "b", ".", "m", "p", "4">>
AUB_MP4 == <<"a", "_", "b", ".", "m", "p", "4">>
AUB_MOV == <<"a", "_", "b", ".", "M", "O", "V">>
N_TXT == <<"n", ".", "t", "x", "t">>

\* "a b" and "a_b" differ as stems; two of the videos share the stem "a_b"
VideoNames == {ASPB_MP4, AUB_MP4, AUB_MOV}

Directories ==
    {d \cup {N_TXT} : d \in {v \in SUBSET VideoNames : Cardinality(v) <= MaxVideos}}

-----------------------------------------------------------------------------
(* File discovery *)

video_extensions ==
    << <<".", "m", "p", "4">>, <<".", "a", "v", "i">>, <<".", "m", "o", "v">>,
       <<".", "m", "k", "v">>, <<".", "w", "m", "v">>, <<".", "f", "l", "v">>,
       <<".", "w", "e", "b", "m">>, <<".", "m", "4", "v">> >>

\* glob.glob(os.path.join(folder, "*" + ext)): "*" does not match a leading dot
Glob(dir, ext) == {n \in dir : EndsWith(n, ext) /\ n[1] # "."}

\* sorted(list(s))
RECURSIVE Sorted(_)
Sorted(s) ==
    IF s = {} THEN <<>>
    ELSE LET m == CHOOSE x \in s : \A y \in s : y = x \/ StrLess(x, y)
         IN  <<m>> \o Sorted(s \ {m})

get_video_files(dir) ==
    Sorted(UNION {Glob(dir, video_extensions[i]) \cup Glob(dir, Upper(video_extensions[i]))
                  : i \in 1..Len(video_extensions)})

-----------------------------------------------------------------------------
(* The world one per-video call acts on: the output folder, the stages the *)
(* call has executed and the files it has written.                         *)

Stages == {"ctor", "extract", "transcribe", "json", "srt_class", "txt", "remove", "srt_batch"}

\* the value of a let-bound expression
Pick(S) == CHOOSE x \in S : TRUE

World(fs) == [fs |-> fs, ran |-> {}, written |-> {}]

Names(fs) == {e.name : e \in fs}

\* os.path.exists
Exists(fs, name) == name \in Names(fs)

\* open(name, "w") and write: creates the file or replaces it
Write(w, name, src) ==
    [w EXCEPT !.fs = {e \in w.fs : e.name # name} \cup {[name |-> name, src |-> src]},
              !.written = w.written \cup {name}]

\* os.remove
Remove(w, name) == [w EXCEPT !.fs = {e \in w.fs : e.name # name}]

Ran(w, stage) == [w EXCEPT !.ran = w.ran \cup {stage}]

S_AUDIO_WAV == <<"_", "a", "u", "d", "i", "o", ".", "w", "a", "v">>
S_TRANSCRIPTION_TXT ==
    <<"_", "t", "r", "a", "n", "s", "c", "r", "i", "p", "t", "i", "o", "n", ".", "t", "x", "t">>
S_TRANSCRIPTION_JSON ==
    <<"_", "t", "r", "a", "n", "s", "c", "r", "i", "p", "t", "i", "o", "n", ".", "j", "s", "o", "n">>
S_TXT == <<".", "t", "x", "t">>
S_JSON == <<".", "j", "s", "o", "n">>
S_SRT == <<".", "s", "r", "t">>

-----------------------------------------------------------------------------
(* Transcription records.  Times are in milliseconds. *)

Texts == {<<>>, <<" ">>, <<" ", "h", "i">>}

Segments(texts) ==
    [i \in 1..Len(texts) |->
        [start |-> (i - 1) * 1500, end |-> i * 1500 - 250, text |-> texts[i]]]

Transcriptions == {Segments(t) : t \in UNION {[1..n -> Texts] : n \in 0..MaxSegs}}

\* What whisper hears on each video of the batch
Speech(video) ==
    IF video = ASPB_MP4 THEN Segments(<< <<" ", "h", "i">> >>)
    ELSE IF video = AUB_MP4 THEN Segments(<< <<" ">>, <<" ", "h", "i">> >>)
    ELSE Segments(<< >>)

-----------------------------------------------------------------------------
(* batch_process.py: SRT generation *)

\* <<HH, MM, SS, mmm>>
format_time_srt(ms) ==
    LET seconds == ms \div 1000
    IN  <<seconds \div 3600, (seconds % 3600) \div 60, seconds % 60, ms % 1000>>

\* the entries of srt_content built from segment i on; i is enumerate's counter
RECURSIVE srt_content(_, _)
srt_content(segments, i) ==
    IF i > Len(segments) THEN <<>>
    ELSE LET text == Strip(segments[i].text)
             srt_entry == [index |-> i,
                           start_time |-> format_time_srt(segments[i].start),
                           end_time |-> format_time_srt(segments[i].end),
                           text |-> text]
         IN  (IF text # <<>> THEN <<srt_entry>> ELSE <<>>) \o srt_content(segments, i + 1)

\* returns the world, True/False and the content built
generate_srt_file(w, segments, output_path, src, fails) ==
    Pick({ IF fails
           THEN [w |-> w1, ok |-> FALSE, content |-> content]
           ELSE [w |-> Write(w1, output_path, src), ok |-> TRUE, content |-> content]
           : w1 \in {Ran(w, "srt_batch")}, content \in {srt_content(segments, 1)} })

-----------------------------------------------------------------------------
(* src/video_english_recognition.py: VideoEnglishRecognizer *)

\* __init__: whisper.load_model runs; raises when the load fails
Recognizer_init(w, fails) == [w |-> Ran(w, "ctor"), exc |-> fails]

\* returns audio_path, or None (here <<>>) when moviepy raises
extract_audio_from_video(w, video_path, audio_path, src, fails) ==
    Pick({ IF fails
           THEN [w |-> w1, audio_file |-> <<>>]
           ELSE [w |-> Write(w1, audio_path, src), audio_file |-> audio_path]
           : w1 \in {Ran(w, "extract")} })

\* transcribe_audio with the exception swallowed: an empty record is returned
transcribe_audio_swallow(w, audio_path, segments, fails) ==
    IF ~Exists(w.fs, audio_path)
    THEN [w |-> w, ok |-> FALSE, segments |-> <<>>]
    ELSE [w |-> Ran(w, "transcribe"), ok |-> TRUE,
          segments |-> IF fails THEN <<>> ELSE segments]

\* returns the record, or None (ok = FALSE)
transcribe_audio(w, audio_path, segments, fails) ==
    IF ~Exists(w.fs, audio_path)
    THEN [w |-> w, ok |-> FALSE, segments |-> <<>>]
    ELSE IF fails
         THEN [w |-> Ran(w, "transcribe"), ok |-> FALSE, segments |-> <<>>]
         ELSE [w |-> Ran(w, "transcribe"), ok |-> TRUE, segments |-> segments]

Recognizer_format_time_srt(ms) ==
    LET seconds == ms \div 1000
    IN  <<seconds \div 3600, (seconds % 3600) \div 60, seconds % 60, ms % 1000>>

RECURSIVE Recognizer_srt_content(_, _)
Recognizer_srt_content(segments, i) ==
    IF i > Len(segments) THEN <<>>
    ELSE LET text == Strip(segments[i].text)
             srt_entry == [index |-> i,
                           start_time |-> Recognizer_format_time_srt(segments[i].start),
                           end_time |-> Recognizer_format_time_srt(segments[i].end),
                           text |-> text]
         IN  (IF text # <<>> THEN <<srt_entry>> ELSE <<>>)
                 \o Recognizer_srt_content(segments, i + 1)

Recognizer_generate_srt_file(w, segments, srt_path, src, fails) ==
    Pick({ IF fails
           THEN [w |-> w1, ok |-> FALSE, content |-> content]
           ELSE [w |-> Write(w1, srt_path, src), ok |-> TRUE, content |-> content]
           : w1 \in {Ran(w, "srt_class")}, content \in {Recognizer_srt_content(segments, 1)} })

\* after json.dump: the SRT file, then the text file
save_transcription_rest(w, segments, output_path, srt_path, src, f) ==
    Pick({ Pick({ IF f["txt"]
                  THEN [w |-> w2, srt |-> <<g.content>>]
                  ELSE [w |-> Write(w2, output_path, src), srt |-> <<g.content>>]
                  : w2 \in {Ran(g.w, "txt")} })
           : g \in {Recognizer_generate_srt_file(w, segments, srt_path, src, f["srt_class"])} })

\* never raises: an exception at the JSON or the text file ends it, logged
save_transcription(w, segments, output_path, src, f) ==
    Pick({ IF f["json"]
           THEN [w |-> w1, srt |-> <<>>]
           ELSE Pick({ save_transcription_rest(w2, segments, output_path, srt_path, src, f)
                       : w2 \in {Write(w1, json_path, src)} })
           : json_path \in {Replace(output_path, S_TXT, S_JSON)},
             srt_path \in {Replace(output_path, S_TRANSCRIPTION_TXT, S_SRT)},
             w1 \in {Ran(w, "json")} })

\* Step 4 of process_video and its return value
process_video_clean(w, audio_file, clean_audio, segments, srt, f) ==
    IF clean_audio /\ Exists(w.fs, audio_file)
    THEN Pick({ IF f["remove"]
                THEN [w |-> w1, ret |-> "failure", transcription |-> <<>>, srt |-> srt]
                ELSE [w |-> Remove(w1, audio_file), ret |-> "success",
                      transcription |-> <<segments>>, srt |-> srt]
                : w1 \in {Ran(w, "remove")} })
    ELSE [w |-> w, ret |-> "success", transcription |-> <<segments>>, srt |-> srt]

\* Steps 2 to 4 of process_video
process_video_steps(w, video_path, audio_file, output_path, clean_audio, f) ==
    Pick({ IF ~tr.ok
           THEN [w |-> tr.w, ret |-> "None", transcription |-> <<>>, srt |-> <<>>]
           ELSE Pick({ process_video_clean(sv.w, audio_file, clean_audio, tr.segments, sv.srt, f)
                       : sv \in {save_transcription(tr.w, tr.segments, output_path,
                                                    video_path, f)} })
           : tr \in {transcribe_audio(w, audio_file, Speech(video_path), f["transcribe"])} })

\* ret: "None", "success" (a dict with success True) or "failure" (success False)
process_video(w, dir, video_path, clean_audio, f) ==
    IF video_path \notin dir
    THEN [w |-> w, ret |-> "None", transcription |-> <<>>, srt |-> <<>>]
    ELSE Pick({ Pick({ IF ex.audio_file = <<>>
                       THEN [w |-> ex.w, ret |-> "None", transcription |-> <<>>, srt |-> <<>>]
                       ELSE process_video_steps(ex.w, video_path, ex.audio_file,
                                                video_name \o S_TRANSCRIPTION_TXT,
                                                clean_audio, f)
                       : ex \in {extract_audio_from_video(w, video_path,
                                                          video_name \o S_AUDIO_WAV,
                                                          video_path, f["extract"])} })
                : video_name \in {Replace(Stem(video_path), <<" ">>, <<"_">>)} })

-----------------------------------------------------------------------------
(* batch_process.py: the per-video handler *)

M_ALREADY == "Already processed"
M_CREATED == "Successfully processed (TXT, JSON, SRT created)"
M_SRT_FAILED == "Successfully processed (TXT, JSON created, SRT failed)"
M_FAILED == "Failed to process"
M_ERROR == "Error processing"

Outcome(w, exc, success, msg, skipped, pv, srt_class, srt_batch) ==
    [w |-> w, exc |-> exc, success |-> success, msg |-> msg, skipped |-> skipped,
     pv |-> pv, srt_class |-> srt_class, srt_batch |-> srt_batch]

\* what follows the call of process_video
process_single_video_result(result, video_path, srt_file, f) ==
    IF result.ret = "None"
    THEN \* result["success"] raises TypeError
         Outcome(result.w, TRUE, FALSE, M_ERROR, FALSE, result.ret, result.srt, <<>>)
    ELSE IF result.ret = "success"
    THEN Pick({ Outcome(g.w, FALSE, TRUE, IF g.ok THEN M_CREATED ELSE M_SRT_FAILED, FALSE,
                        result.ret, result.srt, <<g.content>>)
                : g \in {generate_srt_file(result.w, result.transcription[1], srt_file,
                                           video_path, f["srt_batch"])} })
    ELSE Outcome(result.w, FALSE, FALSE, M_FAILED, FALSE, result.ret, result.srt, <<>>)

\* The body of the try block.  exc: an exception left the body.
process_single_video_try(w, dir, video_path, model, f) ==
    Pick({ IF rec.exc
           THEN Outcome(rec.w, TRUE, FALSE, M_ERROR, FALSE, "not called", <<>>, <<>>)
           ELSE IF /\ Exists(rec.w.fs, video_name \o S_TRANSCRIPTION_TXT)
                   /\ Exists(rec.w.fs, video_name \o S_TRANSCRIPTION_JSON)
                   /\ Exists(rec.w.fs, video_name \o S_SRT)
           THEN Outcome(rec.w, FALSE, TRUE, M_ALREADY, TRUE, "not called", <<>>, <<>>)
           ELSE Pick({ process_single_video_result(result, video_path, video_name \o S_SRT, f)
                       : result \in {process_video(rec.w, dir, video_path, TRUE, f)} })
           : rec \in {Recognizer_init(w, f["ctor"])}, video_name \in {Stem(video_path)} })

\* process_single_video without its except clause: the exception leaves it
process_single_video_noexcept(w, dir, video_path, model, f) ==
    Pick({ [w |-> r.w, raised |-> r.exc, success |-> r.success, msg |-> r.msg,
            skipped |-> r.skipped, pv |-> r.pv, srt_class |-> r.srt_class,
            srt_batch |-> r.srt_batch]
           : r \in {process_single_video_try(w, dir, video_path, model, f)} })

\* except Exception: any exception becomes a failure tuple; raised stays FALSE
process_single_video(w, dir, video_path, model, f) ==
    Pick({ [w |-> r.w, raised |-> FALSE,
            success |-> IF r.exc THEN FALSE ELSE r.success,
            msg |-> IF r.exc THEN M_ERROR ELSE r.msg,
            skipped |-> r.skipped, pv |-> r.pv, srt_class |-> r.srt_class,
            srt_batch |-> r.srt_batch]
           : r \in {process_single_video_try(w, dir, video_path, model, f)} })

-----
(* batch_process.py: main, one run of the batch after another over the    *)
(* same folders                                                            *)

NoFaults == [s \in Stages |-> FALSE]

NoCall ==
    [video |-> <<>>, ran |-> {}, written |-> {},
     clobbered |-> {}, success |-> FALSE, msg |-> "", skipped |-> FALSE, pv |-> "not called",
     transcription |-> <<>>, srt_class |-> <<>>, srt_batch |-> <<>>]

\* The faults of one call: the stages that fail.  A stage after a failed
\* extraction, transcription, JSON write or removal is not drawn a fault of its own.
Faults ==
    {f \in [Stages -> BOOLEAN] :
        /\ f["ctor"] => \A s \in Stages \ {"ctor"} : ~f[s]
        /\ f["extract"] => \A s \in Stages \ {"extract"} : ~f[s]
        /\ f["transcribe"] => \A s \in Stages \ {"transcribe"} : ~f[s]
        /\ f["json"] => ~f["srt_class"] /\ ~f["txt"]
        /\ f["remove"] => ~f["srt_batch"]}

Init ==
    /\ inputDir \in Directories
    /\ outDir = {}
    /\ pc = "env_check"
    /\ video_files = <<>>
    /\ idx = 1
    /\ results = <<>>
    /\ loads = 0
    /\ summary = <<>>
    /\ last = NoCall
    /\ faults = NoFaults
    /\ clean = TRUE
    /\ prevClean = FALSE
    /\ srt_segments = <<>>
    /\ srt_call = <<>>

\* setup_environment: the ffmpeg probe works or main returns
SetupEnvironment ==
    /\ pc = "env_check"
    /\ \E ok \in BOOLEAN :
          /\ pc' = IF ok THEN "discover" ELSE "halted"
          /\ clean' = (clean /\ ok)
    /\ UNCHANGED <<inputDir, outDir, video_files, idx, results, loads, summary, last, faults, prevClean, srt_vars>>

\* get_video_files, and the return when no video is found
Discover ==
    /\ pc = "discover"
    /\ video_files' = get_video_files(inputDir)
    /\ pc' = IF video_files' = <<>> THEN "halted" ELSE "load_model"
    /\ UNCHANGED <<inputDir, outDir, idx, results, loads, summary, last, faults, clean, prevClean, srt_vars>>

\* whisper.load_model("base") in main
LoadModel ==
    /\ pc = "load_model"
    /\ \E ok \in BOOLEAN :
          /\ pc' = IF ok THEN "process" ELSE "halted"
          /\ clean' = (clean /\ ok)
    /\ loads' = loads + 1
    /\ UNCHANGED <<inputDir, outDir, video_files, idx, results, summary, last, faults, prevClean, srt_vars>>

\* one iteration of the loop over video_files
ProcessNext ==
    /\ pc = "process"
    /\ idx <= Len(video_files)
    /\ \E f \in Faults :
          /\ faults' = f
          /\ \E r \in {process_single_video(World(outDir), inputDir, video_files[idx],
                                            "model", f)} :
                \* a fault is drawn only for a stage that runs
                /\ \A s \in Stages : f[s] => s \in r.w.ran
                /\ outDir' = r.w.fs
                /\ loads' = loads + (IF "ctor" \in r.w.ran THEN 1 ELSE 0)
                /\ last' = [video |-> video_files[idx], ran |-> r.w.ran,
                            written |-> r.w.written,
                            clobbered |->
                                {e.name : e \in {o \in outDir : o.src # video_files[idx]}}
                                    \cap r.w.written,
                            success |-> r.success, msg |-> r.msg, skipped |-> r.skipped,
                            pv |-> r.pv,
                            transcription |->
                                IF "transcribe" \in r.w.ran /\ ~f["transcribe"]
                                THEN <<Speech(video_files[idx])>> ELSE <<>>,
                            srt_class |-> r.srt_class, srt_batch |-> r.srt_batch]
                /\ clean' = (clean /\ f = NoFaults)
                /\ IF r.raised
                   THEN \* the exception ends main
                        pc' = "crashed" /\ UNCHANGED <<results, idx>>
                   ELSE /\ results' = Append(results, <<video_files[idx], r.success, r.msg>>)
                        /\ idx' = idx + 1
                        /\ pc' = pc
    /\ UNCHANGED <<inputDir, video_files, summary, prevClean, srt_vars>>

\* the summary after the loop
Summary ==
    /\ pc = "process"
    /\ idx > Len(video_files)
    /\ LET successful == Cardinality({i \in 1..Len(results) : results[i][2]})
       IN  summary' = <<[total |-> Len(results), successful |-> successful,
                         failed |-> Len(results) - successful]>>
    /\ pc' = "summary"
    /\ UNCHANGED <<inputDir, outDir, video_files, idx, results, loads, last, faults, clean, prevClean, srt_vars>>

\* the batch is started again over the same input and output folders
Rerun ==
    /\ pc \in {"summary", "halted"}
    /\ pc' = "env_check"
    /\ video_files' = <<>>
    /\ idx' = 1
    /\ results' = <<>>
    /\ loads' = 0
    /\ summary' = <<>>
    /\ last' = NoCall
    /\ faults' = NoFaults
    /\ prevClean' = clean
    /\ clean' = TRUE
    /\ UNCHANGED <<inputDir, outDir, srt_vars>>

Next == SetupEnvironment \/ Discover \/ LoadModel \/ ProcessNext \/ Summary \/ Rerun

Spec == Init /\ [][Next]_vars

\* the interpreter runs the loop of main and what follows it to the end
FairSpec == Spec /\ WF_vars(ProcessNext) /\ WF_vars(Summary)

-----------------------------------------------------------------------------
(* SRT generation on its own: a transcription record is given and one of   *)
(* the two generate_srt_file functions is called on it.                    *)

SRT_PATH == <<"o", "u", "t", ".", "s", "r", "t">>

SrtInit ==
    /\ inputDir = {}
    /\ outDir = {}
    /\ pc = "srt"
    /\ video_files = <<>>
    /\ idx = 1
    /\ results = <<>>
    /\ loads = 0
    /\ summary = <<>>
    /\ last = NoCall
    /\ faults = NoFaults
    /\ clean = TRUE
    /\ prevClean = FALSE
    /\ srt_segments \in Transcriptions
    /\ srt_call = <<>>

\* generate_srt_file of batch_process.py
GenerateSrt ==
    /\ srt_call = <<>>
    /\ \E fails \in BOOLEAN :
          \E g \in {generate_srt_file(World({}), srt_segments, SRT_PATH, <<>>, fails)} :
             srt_call' = <<[by |-> "batch_process", ok |-> g.ok, content |-> g.content,
                            written |-> Exists(g.w.fs, SRT_PATH)]>>
    /\ UNCHANGED <<batch_vars, srt_segments>>

\* VideoEnglishRecognizer.generate_srt_file
RecognizerGenerateSrt ==
    /\ srt_call = <<>>
    /\ \E fails \in BOOLEAN :
          \E g \in {Recognizer_generate_srt_file(World({}), srt_segments, SRT_PATH, <<>>, fails)} :
             srt_call' = <<[by |-> "VideoEnglishRecognizer", ok |-> g.ok, content |-> g.content,
                            written |-> Exists(g.w.fs, SRT_PATH)]>>
    /\ UNCHANGED <<batch_vars, srt_segments>>

SrtNext == GenerateSrt \/ RecognizerGenerateSrt

SrtSpec == SrtInit /\ [][SrtNext]_vars

-----------------------------------------------------------------------------
(* Properties *)

\* the three artifacts of a stem
ArtifactNames(stem) ==
    {stem \o S_TRANSCRIPTION_TXT, stem \o S_TRANSCRIPTION_JSON, stem \o S_SRT}

IsArtifactName(n) ==
    EndsWith(n, S_TRANSCRIPTION_TXT) \/ EndsWith(n, S_TRANSCRIPTION_JSON) \/ EndsWith(n, S_SRT)

\* the waveform file process_video makes for a video
WaveformName(video) == Replace(Stem(video), <<" ">>, <<"_">>) \o S_AUDIO_WAV

Called == last.video # <<>>

NoFault == faults = NoFaults

\* C1: when a run of the batch in which nothing failed is followed by another
\* run over the same folders in which nothing fails, the second run skips every
\* video as already processed and reports zero failures.
C1_SecondRunSkipsEveryVideo ==
    (pc = "summary" /\ prevClean /\ clean) =>
        /\ \A i \in 1..Len(results) : results[i][3] = M_ALREADY
        /\ summary[1].failed = 0

\* C2: after a video is processed successfully (not skipped, nothing failing),
\* the files the call has left in the output folder are exactly
\* {stem}_transcription.txt, {stem}_transcription.json and {stem}.srt, with the
\* stem of the video's file name unchanged.
C2_ExactlyThreeArtifactsOfTheStem ==
    (Called /\ last.success /\ ~last.skipped /\ NoFault) =>
        last.written \cap Names(outDir) = ArtifactNames(Stem(last.video))

\* C3: whenever process_video has returned for a video (and the deletion itself
\* did not fail), the waveform file it created no longer exists.
C3_WaveformGoneWhenProcessVideoReturns ==
    (Called /\ last.pv # "not called" /\ ~faults["remove"]) =>
        WaveformName(last.video) \notin (last.written \cap Names(outDir))

\* C4: when extraction fails, or extraction succeeds and transcription fails,
\* process_single_video returns a failure tuple, no later stage runs and the call
\* creates none of the three artifacts.
C4_FailedExtractionOrTranscriptionFails ==
    (Called /\ (faults["extract"] \/ faults["transcribe"])) =>
        /\ ~last.success
        /\ results # <<>>
        /\ results[Len(results)] = <<last.video, FALSE, last.msg>>
        /\ last.msg \in {M_ERROR, M_FAILED}
        /\ last.ran \cap {"json", "srt_class", "txt", "remove", "srt_batch"} = {}
        /\ faults["extract"] => "transcribe" \notin last.ran
        /\ \A n \in last.written : ~IsArtifactName(n)
        /\ last.srt_class = <<>> /\ last.srt_batch = <<>>

\* extraction succeeded, transcription failed, and the failure is recorded
C4_Witness ==
    /\ Called
    /\ faults["transcribe"]
    /\ {"extract", "transcribe"} \subseteq last.ran
    /\ results # <<>>
    /\ ~results[Len(results)][2]

\* C5: in a run of the batch the model-load operation is executed once, before
\* the first video, and no per-video operation executes it again.
C5_ModelLoadedOncePerRun ==
    pc \in {"process", "summary"} => loads = 1

\* C6: when extraction, transcription and saving succeeded and only the deletion
\* of the waveform file fails, the video is reported as a success.
C6_DeleteFailureIsNotFatal ==
    (Called /\ faults["remove"] /\ \A s \in Stages \ {"remove"} : ~faults[s]) =>
        /\ last.success
        /\ results[Len(results)][2]

\* what the loop of main keeps, and what the summary reports
C7_Loop ==
    /\ pc # "crashed"
    /\ pc \in {"process", "summary"} =>
          /\ {video_files[i] : i \in 1..Len(video_files)} = inputDir \ {N_TXT}
          /\ \A i \in 1..(Len(video_files) - 1) : StrLess(video_files[i], video_files[i + 1])
          /\ Len(results) = idx - 1
          /\ \A i \in 1..Len(results) : results[i][1] = video_files[i]
    /\ pc = "summary" =>
          /\ Len(results) = Len(video_files)
          /\ summary[1].total = Len(video_files)
          /\ summary[1].successful = Cardinality({i \in 1..Len(results) : results[i][2]})
          /\ summary[1].successful + summary[1].failed = Len(video_files)

C8_SrtIndexesAreConsecutive ==
    srt_call # <<>> =>
        LET content == srt_call[1].content
            kept == SelectSeq(srt_segments, LAMBDA seg : Strip(seg.text) # <<>>)
        IN  /\ Len(content) = Len(kept)
            /\ \A k \in 1..Len(content) :
                  /\ content[k].text = Strip(kept[k].text)
                  /\ content[k].index = k

\* C9: a video is skipped only when the three artifacts found were written from
\* that same video, and processing a video never overwrites an artifact written
\* from another video.
C9_SkipOnlyOnOwnArtifacts ==
    Called =>
        /\ last.skipped =>
              \A e \in outDir :
                  e.name \in ArtifactNames(Stem(last.video)) => e.src = last.video
        /\ \A n \in last.clobbered : ~IsArtifactName(n)

\* C10: whenever process_single_video returns success the text and the JSON
\* artifact of the video exist, and "(TXT, JSON, SRT created)" is returned only
\* when the call has written all three artifacts.
C10_SuccessMeansTextAndJsonExist ==
    (Called /\ last.success) =>
        /\ Exists(outDir, Stem(last.video) \o S_TRANSCRIPTION_TXT)
        /\ Exists(outDir, Stem(last.video) \o S_TRANSCRIPTION_JSON)
        /\ last.msg = M_CREATED => ArtifactNames(Stem(last.video)) \subseteq last.written

====
